---- MODULE Spec2Model ----
(***************************************************************************)
(* Model of the shell emulator's in-memory virtual file system (vfs.py)    *)
(* and of the parts of the shell (shell.py) that load, save and address    *)
(* it.  Strings are sequences of one-character strings, byte strings are   *)
(* sequences of integers in 0..255, a Python dict is the sequence of its   *)
(* entries in insertion order.                                             *)
(***************************************************************************)
EXTENDS Integers, Sequences, FiniteSets, TLC

VARIABLES
    pc,        \* where the run is: "loading", "ready", "order", "resolve", "resolved"
    building,  \* the tree of the Vfs that from_csv is filling
    prev,      \* that tree as it was before the last row was inserted
    row,       \* the row the reader yielded last
    nread,     \* the number of rows read
    loadErr,   \* the VfsLoadError the load raised, "none" when it raised none
    vfs,       \* Shell.vfs: the root node of the shell's tree
    csvOut,    \* the data rows the last to_csv wrote
    rowsA,     \* a CSV file, as the sequence of its data rows
    rowsB,     \* a second CSV file holding the rows of rowsA in another order
    resA,      \* the outcome of from_csv on rowsA
    resB,      \* the outcome of from_csv on rowsB
    csvOutB,   \* the data rows to_csv wrote for the tree of resB
    cur,       \* Shell.current_dir
    arg,       \* the path argument given to _make_abs_path
    resolved,  \* the path _make_abs_path returned
    running,   \* Shell._running
    nlines,    \* the number of lines handed to _process_line
    line,      \* the line handed to _process_line last
    printed,   \* what the last line made the shell print
    nlogs,     \* the number of calls of logger.log
    lastLog,   \* the arguments of the last call of logger.log
    looked,    \* what the last call of vfs.find_node returned
    fieldnames,\* the header of a CSV file, as the sequence of its column names
    records,   \* the data lines of that file, each the sequence of its cells
    fileRes    \* the outcome of from_csv on that file

vars == <<pc, building, prev, row, nread, loadErr, vfs, csvOut, rowsA, rowsB, resA, resB,
          csvOutB, cur, arg, resolved, running, nlines, line, printed, nlogs, lastLog,
          looked, fieldnames, records, fileRes>>

loadVars == <<building, prev, row, nread, loadErr, vfs>>

orderVars == <<rowsA, rowsB, resA, resB, csvOutB>>

pathVars == <<cur, arg, resolved>>

shellVars == <<running, nlines, line, printed, nlogs, lastLog, looked>>

fileVars == <<fieldnames, records, fileRes>>

(***************************************************************************)
(* Bounds of the model.                                                    *)
(***************************************************************************)
MaxPathLen == 2

MaxRows == 2

MaxOrderRows == 2

MaxArgLen == 4

(***************************************************************************)
(* Strings.                                                                *)
(***************************************************************************)
RECURSIVE StringsUpTo(_, _)
StringsUpTo(chars, n) ==
    IF n = 0 THEN {<<>>}
    ELSE LET shorter == StringsUpTo(chars, n - 1)
         IN  shorter \cup {Append(s, c) : s \in {t \in shorter : Len(t) = n - 1}, c \in chars}

\* Code points of the characters the model uses (Python compares str by code point).
Ord(c) ==
    CASE c = " " -> 32
      [] c = "." -> 46
      [] c = "/" -> 47
      [] c = "a" -> 97
      [] c = "b" -> 98
      [] c = "x" -> 120
      [] c = "y" -> 121
      [] OTHER   -> 0

\* str.__lt__: lexicographic order by code point.
RECURSIVE StrLess(_, _)
StrLess(s, t) ==
    IF t = <<>> THEN FALSE
    ELSE IF s = <<>> THEN TRUE
    ELSE IF Head(s) = Head(t) THEN StrLess(Tail(s), Tail(t))
    ELSE Ord(Head(s)) < Ord(Head(t))

IsSpace(c) == c = " "

\* str.lstrip() / str.rstrip() / str.strip() without argument: drop white space.
RECURSIVE LStripSpace(_)
LStripSpace(s) ==
    IF s # <<>> /\ IsSpace(Head(s)) THEN LStripSpace(Tail(s)) ELSE s

RECURSIVE RStripSpace(_)
RStripSpace(s) ==
    IF s # <<>> /\ IsSpace(s[Len(s)]) THEN RStripSpace(SubSeq(s, 1, Len(s) - 1)) ELSE s

Strip(s) == RStripSpace(LStripSpace(s))

\* str.lstrip("/")
RECURSIVE LStripSlash(_)
LStripSlash(s) ==
    IF s # <<>> /\ Head(s) = "/" THEN LStripSlash(Tail(s)) ELSE s

\* str.startswith("/")
StartsWithSlash(s) == s # <<>> /\ Head(s) = "/"

\* str.split("/"): the pieces between the separators, empty pieces included.
RECURSIVE SplitAcc(_, _, _)
SplitAcc(s, piece, acc) ==
    IF s = <<>> THEN Append(acc, piece)
    ELSE IF Head(s) = "/" THEN SplitAcc(Tail(s), <<>>, Append(acc, piece))
    ELSE SplitAcc(Tail(s), Append(piece, Head(s)), acc)

SplitSlash(s) == SplitAcc(s, <<>>, <<>>)

\* [p for p in parts if p]
RECURSIVE NonEmpty(_)
NonEmpty(parts) ==
    IF parts = <<>> THEN <<>>
    ELSE IF Head(parts) = <<>> THEN NonEmpty(Tail(parts))
    ELSE <<Head(parts)>> \o NonEmpty(Tail(parts))

\* "/".join(parts)
RECURSIVE JoinSlash(_)
JoinSlash(parts) ==
    IF parts = <<>> THEN <<>>
    ELSE IF Len(parts) = 1 THEN Head(parts)
    ELSE Head(parts) \o <<"/">> \o JoinSlash(Tail(parts))

(***************************************************************************)
(* base64.b64encode / base64.b64decode (non-validating), as vfs.py calls   *)
(* them.  A base64 text is a sequence of integers: 0..63 is the alphabet    *)
(* character with that value, B64Pad is "=", B64Junk an ASCII character    *)
(* outside the alphabet (such as "!") and B64NonAscii a non-ASCII one.     *)
(***************************************************************************)
B64Pad == 64

B64Junk == 65

B64NonAscii == 66

RECURSIVE b64encode(_)
b64encode(bytes) ==
    IF bytes = <<>> THEN <<>>
    ELSE IF Len(bytes) = 1 THEN
        << bytes[1] \div 4, (bytes[1] % 4) * 16, B64Pad, B64Pad >>
    ELSE IF Len(bytes) = 2 THEN
        << bytes[1] \div 4, (bytes[1] % 4) * 16 + bytes[2] \div 16,
           (bytes[2] % 16) * 4, B64Pad >>
    ELSE
        << bytes[1] \div 4, (bytes[1] % 4) * 16 + bytes[2] \div 16,
           (bytes[2] % 16) * 4 + bytes[3] \div 64, bytes[3] % 64 >>
        \o b64encode(SubSeq(bytes, 4, Len(bytes)))

\* binascii.a2b_base64 in non-strict mode: characters outside the alphabet are
\* skipped, a complete pad sequence ends the parse, a leftover group is an error.
RECURSIVE a2b(_, _, _, _, _)
a2b(text, quad_pos, leftchar, pads, out) ==
    IF text = <<>> THEN
        IF quad_pos # 0 THEN [ok |-> FALSE, bytes |-> <<>>]
        ELSE [ok |-> TRUE, bytes |-> out]
    ELSE LET ch == Head(text) IN
        IF ch = B64Pad THEN
            IF quad_pos >= 2 /\ quad_pos + pads + 1 >= 4
            THEN [ok |-> TRUE, bytes |-> out]
            ELSE a2b(Tail(text), quad_pos, leftchar, pads + 1, out)
        ELSE IF ch \notin 0..63 THEN
            a2b(Tail(text), quad_pos, leftchar, pads, out)
        ELSE IF quad_pos = 0 THEN
            a2b(Tail(text), 1, ch, 0, out)
        ELSE IF quad_pos = 1 THEN
            a2b(Tail(text), 2, ch % 16, 0, Append(out, leftchar * 4 + ch \div 16))
        ELSE IF quad_pos = 2 THEN
            a2b(Tail(text), 3, ch % 4, 0, Append(out, leftchar * 16 + ch \div 4))
        ELSE
            a2b(Tail(text), 0, 0, 0, Append(out, leftchar * 64 + ch))

\* content_b64.encode("ascii") raises on a non-ASCII character; then a2b_base64.
b64decode(text) ==
    IF \E i \in 1..Len(text) : text[i] = B64NonAscii
    THEN [ok |-> FALSE, bytes |-> <<>>]
    ELSE a2b(text, 0, 0, 0, <<>>)

(***************************************************************************)
(* VfsNode and Vfs (vfs.py).  A node is a record; children is the dict of  *)
(* the node as the sequence of its (key, node) entries in insertion order. *)
(***************************************************************************)
DirType == <<"d", "i", "r">>

FileType == <<"f", "i", "l", "e">>

VfsNode(name, is_dir, content) ==
    [name |-> name, is_dir |-> is_dir, children |-> <<>>, content |-> content]

\* Vfs.__init__: the root directory.
EmptyVfs == VfsNode(<<"/">>, TRUE, <<>>)

\* Position of key in a dict, 0 when the key is absent (name in self.children).
KeyIndex(children, key) ==
    IF \E i \in 1..Len(children) : children[i].key = key
    THEN CHOOSE i \in 1..Len(children) : children[i].key = key
    ELSE 0

\* ensure_child_dir without the test "if not node.is_dir": an existing file is
\* returned as if it were a directory.
ensure_child_dir_unchecked(self, name) ==
    LET i == KeyIndex(self.children, name) IN
    IF i # 0 THEN [err |-> "none", node |-> self, idx |-> i]
    ELSE [err |-> "none",
          node |-> [self EXCEPT !.children =
                        Append(@, [key |-> name, node |-> VfsNode(name, TRUE, <<>>)])],
          idx |-> Len(self.children) + 1]

\* ensure_child_dir that stores a new directory node also when one exists.
ensure_child_dir_fresh(self, name) ==
    LET i == KeyIndex(self.children, name)
        entry == [key |-> name, node |-> VfsNode(name, TRUE, <<>>)]
    IN  IF i # 0 THEN
            IF ~self.children[i].node.is_dir
            THEN [err |-> "conflict", node |-> self, idx |-> i]
            ELSE [err |-> "none", node |-> [self EXCEPT !.children[i] = entry], idx |-> i]
        ELSE [err |-> "none",
              node |-> [self EXCEPT !.children = Append(@, entry)],
              idx |-> Len(self.children) + 1]

\* VfsNode.ensure_child_dir: the child directory is self.children[idx] of the
\* returned node; err is "conflict" when the existing child is a file.
ensure_child_dir(self, name) ==
    LET i == KeyIndex(self.children, name) IN
    IF i # 0 THEN
        IF ~self.children[i].node.is_dir
        THEN [err |-> "conflict", node |-> self, idx |-> i]
        ELSE [err |-> "none", node |-> self, idx |-> i]
    ELSE [err |-> "none",
          node |-> [self EXCEPT !.children =
                        Append(@, [key |-> name, node |-> VfsNode(name, TRUE, <<>>)])],
          idx |-> Len(self.children) + 1]

\* set_file that turns an existing child into a file in place, keeping its children.
set_file_in_place(self, name, content) ==
    LET i == KeyIndex(self.children, name)
        entry == [key |-> name, node |-> VfsNode(name, FALSE, content)]
    IN  IF i # 0
        THEN [self EXCEPT !.children[i].node.is_dir = FALSE,
                          !.children[i].node.content = content]
        ELSE [self EXCEPT !.children = Append(@, entry)]

\* set_file that keeps an existing child (the first row wins).
set_file_first_wins(self, name, content) ==
    LET i == KeyIndex(self.children, name)
        entry == [key |-> name, node |-> VfsNode(name, FALSE, content)]
    IN  IF i # 0 THEN self
        ELSE [self EXCEPT !.children = Append(@, entry)]

\* VfsNode.set_file: self.children[name] = VfsNode(name, False, content).
set_file(self, name, content) ==
    LET i == KeyIndex(self.children, name)
        entry == [key |-> name, node |-> VfsNode(name, FALSE, content)]
    IN  IF i # 0 THEN [self EXCEPT !.children[i] = entry]
        ELSE [self EXCEPT !.children = Append(@, entry)]

\* The leaf part of _insert_row that takes every type but 'file' as 'dir'.
insert_leaf_default_dir(current, leaf_name, node_type, content_b64) ==
    IF node_type = FileType THEN
        LET d == b64decode(content_b64) IN
        IF ~d.ok THEN [err |-> "base64", node |-> current]
        ELSE [err |-> "none", node |-> set_file(current, leaf_name, d.bytes)]
    ELSE LET e == ensure_child_dir(current, leaf_name)
         IN  [err |-> e.err, node |-> e.node]

\* The leaf part of Vfs._insert_row: materialise parts[-1] under current.
insert_leaf(current, leaf_name, node_type, content_b64) ==
    IF node_type = DirType THEN
        LET e == ensure_child_dir(current, leaf_name)
        IN  [err |-> e.err, node |-> e.node]
    ELSE IF node_type = FileType THEN
        LET d == b64decode(content_b64) IN
        IF ~d.ok THEN [err |-> "base64", node |-> current]
        ELSE [err |-> "none", node |-> set_file(current, leaf_name, d.bytes)]
    ELSE [err |-> "type", node |-> current]

\* The walk of Vfs._insert_row from the node current along parts; the nodes the
\* walk created stay in the tree when a later step raises.
RECURSIVE insert_walk(_, _, _, _)
insert_walk(current, parts, node_type, content_b64) ==
    IF Len(parts) = 1 THEN insert_leaf(current, parts[1], node_type, content_b64)
    ELSE LET e == ensure_child_dir(current, Head(parts)) IN
         IF e.err # "none" THEN [err |-> e.err, node |-> current]
         ELSE LET sub == insert_walk(e.node.children[e.idx].node, Tail(parts),
                                     node_type, content_b64)
              IN  [err |-> sub.err,
                   node |-> [e.node EXCEPT !.children[e.idx].node = sub.node]]

\* _insert_row that takes a root row of any type as a no-op.
insert_row_root_any(root, raw_path, node_type, content_b64) ==
    IF ~StartsWithSlash(raw_path) THEN [err |-> "path", node |-> root]
    ELSE IF raw_path = <<"/">> THEN [err |-> "none", node |-> root]
    ELSE LET parts == NonEmpty(SplitSlash(LStripSlash(raw_path))) IN
         IF parts = <<>> THEN [err |-> "path", node |-> root]
         ELSE insert_walk(root, parts, node_type, content_b64)

\* _insert_row that keeps the empty segments of the path.
insert_row_keep_empty(root, raw_path, node_type, content_b64) ==
    IF ~StartsWithSlash(raw_path) THEN [err |-> "path", node |-> root]
    ELSE IF raw_path = <<"/">> THEN
        IF node_type # DirType THEN [err |-> "root", node |-> root]
        ELSE [err |-> "none", node |-> root]
    ELSE LET parts == SplitSlash(LStripSlash(raw_path)) IN
         IF parts = <<>> THEN [err |-> "path", node |-> root]
         ELSE insert_walk(root, parts, node_type, content_b64)

\* Vfs._insert_row: the tree after the call and the error it raised, if any.
insert_row(root, raw_path, node_type, content_b64) ==
    IF ~StartsWithSlash(raw_path) THEN [err |-> "path", node |-> root]
    ELSE IF raw_path = <<"/">> THEN
        IF node_type # DirType THEN [err |-> "root", node |-> root]
        ELSE [err |-> "none", node |-> root]
    ELSE LET parts == NonEmpty(SplitSlash(LStripSlash(raw_path))) IN
         IF parts = <<>> THEN [err |-> "path", node |-> root]
         ELSE insert_walk(root, parts, node_type, content_b64)

\* The body of the loop of Vfs.from_csv for one row of the reader.
load_row(root, r) ==
    LET raw_path == Strip(r.path)
        node_type == Strip(r.type)
    IN  IF raw_path = <<>> THEN [err |-> "empty", node |-> root]
        ELSE insert_row(root, raw_path, node_type, r.content_base64)

\* Vfs.from_csv over the data rows of a file with a valid header: the tree when
\* every row was inserted, the error of the first row that raised otherwise.
RECURSIVE load_rows(_, _)
load_rows(root, rows) ==
    IF rows = <<>> THEN [err |-> "none", node |-> root]
    ELSE LET r == load_row(root, Head(rows)) IN
         IF r.err # "none" THEN r ELSE load_rows(r.node, Tail(rows))

from_csv(rows) == load_rows(EmptyVfs, rows)

\* sorted(node.children.items()): the entries in ascending order of key.
RECURSIVE InsertSorted(_, _)
InsertSorted(entry, sorted) ==
    IF sorted = <<>> THEN <<entry>>
    ELSE IF StrLess(entry.key, Head(sorted).key) THEN <<entry>> \o sorted
    ELSE <<Head(sorted)>> \o InsertSorted(entry, Tail(sorted))

RECURSIVE SortedItems(_)
SortedItems(children) ==
    IF children = <<>> THEN <<>>
    ELSE InsertSorted(Head(children), SortedItems(Tail(children)))

\* The children in insertion order, as node.children.items() without sorted().
InsertionOrder(children) == children

\* The order in which Vfs._write_node_recursive visits the children of a node.
WriteOrder(children) == SortedItems(children)

\* Vfs._write_node_recursive: the rows written for node and its subtree.
RECURSIVE write_node_recursive(_, _)
RECURSIVE write_children(_, _)
RECURSIVE write_children_joined(_, _)
write_node_recursive(node, current_path) ==
    LET this == IF current_path = <<"/">> \/ node.is_dir
                THEN [path |-> current_path, type |-> DirType, content_base64 |-> <<>>]
                ELSE [path |-> current_path, type |-> FileType,
                      content_base64 |-> b64encode(node.content)]
    IN  IF ~node.is_dir THEN <<this>>
        ELSE <<this>> \o write_children(WriteOrder(node.children), current_path)

\* write_children that joins with "/" also below the root.
write_children_joined(items, current_path) ==
    IF items = <<>> THEN <<>>
    ELSE write_node_recursive(Head(items).node, current_path \o <<"/">> \o Head(items).key)
         \o write_children_joined(Tail(items), current_path)

write_children(items, current_path) ==
    IF items = <<>> THEN <<>>
    ELSE LET child_path == IF current_path = <<"/">> THEN <<"/">> \o Head(items).key
                           ELSE current_path \o <<"/">> \o Head(items).key
         IN  write_node_recursive(Head(items).node, child_path)
             \o write_children(Tail(items), current_path)

\* Vfs.to_csv: the data rows written after the header.
to_csv(root) == write_node_recursive(root, <<"/">>)

(***************************************************************************)
(* The inputs: the fields a data row of the CSV file can hold.             *)
(***************************************************************************)
PathChars == {"/", "a", " "}

\* Every string of at most MaxPathLen characters, and some longer paths: with
\* white space around and inside the path, repeated and trailing separators,
\* nested segments and a second name.
DeepPaths ==
    { <<" ", "/", "a">>,
      <<"/", "a", " ">>,
      <<"/", " ", "/">>,
      <<"/", "/", "a">>,
      <<"/", "a", "/">>,
      <<"/", "b">>,
      <<"/", "a", "/", "b">>,
      <<"/", "a", "/", "b", "/">>,
      <<"/", "a", " ", "/", "b">>,
      <<"/", "a", "/", "a", "/", "b">> }

Paths == StringsUpTo(PathChars, MaxPathLen) \cup DeepPaths

Contents == {<<>>, <<65>>, <<255, 0>>}

\* "QQ" without padding does not decode.
B64Texts == {b64encode(c) : c \in Contents} \cup {<<16, 16>>}

\* Rows of type file with every content, rows of type dir, a type that needs
\* stripping and an unknown type.
Rows ==
    [path : Paths, type : {FileType}, content_base64 : B64Texts]
    \cup [path : Paths, type : {DirType, <<" ">> \o DirType, <<"x">>},
          content_base64 : {<<>>}]

NoRow == [path |-> <<>>, type |-> <<>>, content_base64 |-> <<>>]

NoResult == [err |-> "unset", node |-> EmptyVfs]

NoError == [msg |-> "none", path |-> <<>>]

NoLine == [raw |-> <<>>, unbalanced |-> FALSE, tokens |-> <<>>]

NoLog == [command |-> <<>>, args |-> <<>>, success |-> TRUE, error |-> NoError]

NotFound == [found |-> FALSE, node |-> EmptyVfs]

\* The shell has processed no line yet (Shell.__init__).
ShellIdle ==
    /\ running = TRUE
    /\ nlines = 0
    /\ line = NoLine
    /\ printed = <<>>
    /\ nlogs = 0
    /\ lastLog = NoLog
    /\ looked = NotFound

\* No CSV file has been read as a file of lines.
NoFileResult == [err |-> "unset", node |-> EmptyVfs, seen |-> 0]

FileIdle ==
    /\ fieldnames = <<>>
    /\ records = <<>>
    /\ fileRes = NoFileResult

(***************************************************************************)
(* The shell's start-up load (Shell.__init__, Shell._load_vfs and the loop *)
(* of Vfs.from_csv) and the vfs-save command.                              *)
(***************************************************************************)
Init ==
    /\ pc = "loading"
    /\ building = EmptyVfs
    /\ prev = EmptyVfs
    /\ row = NoRow
    /\ nread = 0
    /\ loadErr = "none"
    /\ vfs = EmptyVfs
    /\ csvOut = <<>>
    /\ rowsA = <<>> /\ rowsB = <<>> /\ resA = NoResult /\ resB = NoResult
    /\ csvOutB = <<>>
    /\ cur = <<"/">> /\ arg = <<>> /\ resolved = <<>>
    /\ ShellIdle
    /\ FileIdle

\* ReadRow that assigns the tree under construction to self.vfs at every row.
ReadRowPublishing ==
    /\ pc = "loading"
    /\ nread < MaxRows
    /\ \E r \in Rows :
         LET res == load_row(building, r) IN
         /\ row' = r
         /\ prev' = building
         /\ building' = res.node
         /\ vfs' = res.node
         /\ loadErr' = res.err
         /\ pc' = IF res.err = "none" THEN "loading" ELSE "ready"
    /\ nread' = nread + 1
    /\ UNCHANGED <<csvOut, orderVars, pathVars, shellVars, fileVars>>

\* One iteration of "for row in reader": the reader yields a row and the row is
\* inserted; when the insertion raises, from_csv raises and _load_vfs reports
\* the error, leaving self.vfs as it was.
ReadRow ==
    /\ pc = "loading"
    /\ nread < MaxRows
    /\ \E r \in Rows :
         LET res == load_row(building, r) IN
         /\ row' = r
         /\ prev' = building
         /\ building' = res.node
         /\ loadErr' = res.err
         /\ pc' = IF res.err = "none" THEN "loading" ELSE "ready"
    /\ nread' = nread + 1
    /\ UNCHANGED <<vfs, csvOut, orderVars, pathVars, shellVars, fileVars>>

\* The reader is exhausted: from_csv returns vfs and _load_vfs assigns self.vfs.
EndOfRows ==
    /\ pc = "loading"
    /\ vfs' = building
    /\ pc' = "ready"
    /\ UNCHANGED <<building, prev, row, nread, loadErr, csvOut, orderVars, pathVars, shellVars, fileVars>>

\* Shell._handle_vfs_save with one argument and a writable destination.
VfsSave ==
    /\ pc = "ready"
    /\ csvOut = <<>>
    /\ csvOut' = to_csv(vfs)
    /\ UNCHANGED <<pc, loadVars, orderVars, pathVars, shellVars, fileVars>>

Next == ReadRow \/ EndOfRows \/ VfsSave

Spec == Init /\ [][Next]_vars

(***************************************************************************)
(* Shell._make_abs_path (shell.py).                                        *)
(***************************************************************************)
\* walk_parts that pushes "." as a name instead of skipping it.
RECURSIVE walk_parts_keep_dot(_, _)
walk_parts_keep_dot(base_parts, parts) ==
    IF parts = <<>> THEN base_parts
    ELSE LET part == Head(parts) IN
         IF part = <<>> THEN walk_parts_keep_dot(base_parts, Tail(parts))
         ELSE IF part = <<".", ".">> THEN
             IF base_parts # <<>>
             THEN walk_parts_keep_dot(SubSeq(base_parts, 1, Len(base_parts) - 1), Tail(parts))
             ELSE walk_parts_keep_dot(base_parts, Tail(parts))
         ELSE walk_parts_keep_dot(Append(base_parts, part), Tail(parts))

\* The loop over tail.split("/"): base_parts after the parts were processed.
RECURSIVE walk_parts(_, _)
walk_parts(base_parts, parts) ==
    IF parts = <<>> THEN base_parts
    ELSE LET part == Head(parts) IN
         IF part = <<>> \/ part = <<".">> THEN walk_parts(base_parts, Tail(parts))
         ELSE IF part = <<".", ".">> THEN
             IF base_parts # <<>>
             THEN walk_parts(SubSeq(base_parts, 1, Len(base_parts) - 1), Tail(parts))
             ELSE walk_parts(base_parts, Tail(parts))
         ELSE walk_parts(Append(base_parts, part), Tail(parts))

make_abs_path(current_dir, path) ==
    LET start == IF StartsWithSlash(path) THEN <<>>
                 ELSE IF current_dir = <<"/">> THEN <<>>
                 ELSE NonEmpty(SplitSlash(LStripSlash(current_dir)))
        tail == IF StartsWithSlash(path) THEN LStripSlash(path) ELSE path
        base_parts == walk_parts(start, SplitSlash(tail))
    IN  IF base_parts = <<>> THEN <<"/">> ELSE <<"/">> \o JoinSlash(base_parts)

ArgChars == {"/", ".", "x"}

\* The paths of the examples: "..", "./x", "/x/../y".
ExampleArgs ==
    { <<".", ".">>, <<".", "/", "x">>, <<"/", "x", "/", ".", ".", "/", "y">> }

Args == StringsUpTo(ArgChars, MaxArgLen) \cup ExampleArgs

CurDirs == { <<"/">>, <<"/", "a">>, <<"/", "a", "/", "b">> }

InitResolve ==
    /\ pc = "resolve"
    /\ cur \in CurDirs
    /\ arg \in Args
    /\ resolved = <<>>
    /\ building = EmptyVfs /\ prev = EmptyVfs /\ row = NoRow /\ nread = 0 /\ loadErr = "none"
    /\ vfs = EmptyVfs /\ csvOut = <<>>
    /\ rowsA = <<>> /\ rowsB = <<>> /\ resA = NoResult /\ resB = NoResult
    /\ csvOutB = <<>>
    /\ ShellIdle
    /\ FileIdle

\* A command handler resolves its path argument against current_dir.
Resolve ==
    /\ pc = "resolve"
    /\ resolved' = make_abs_path(cur, arg)
    /\ pc' = "resolved"
    /\ UNCHANGED <<cur, arg, loadVars, csvOut, orderVars, shellVars, fileVars>>

NextResolve == Resolve

SpecResolve == InitResolve /\ [][NextResolve]_vars

(***************************************************************************)
(* Two loads of the same rows in two orders, and the saves of both trees.  *)
(***************************************************************************)
OrderPaths ==
    { <<"/", "a">>, <<"/", "b">>, <<"/", "a", "/", "b">>, <<"/", "a", "/", "a">>,
      <<"/", "b", "/", "a">>, <<"/", "b", "/", "b">> }

OrderRows ==
    [path : OrderPaths, type : {FileType}, content_base64 : {<<>>, b64encode(<<65>>)}]
    \cup [path : OrderPaths, type : {DirType}, content_base64 : {<<>>}]

\* The sequences of 1..n rows with pairwise distinct path fields.
RECURSIVE DistinctRowSeqs(_)
DistinctRowSeqs(n) ==
    IF n = 0 THEN {<<>>}
    ELSE LET shorter == DistinctRowSeqs(n - 1)
         IN  shorter \cup
             { Append(s, r) : s \in {t \in shorter : Len(t) = n - 1},
                              r \in OrderRows } 

PairwiseDistinctPaths(rows) ==
    \A i, j \in 1..Len(rows) : i # j => rows[i].path # rows[j].path

RowOrders(rows) ==
    { [i \in 1..Len(rows) |-> rows[f[i]]] :
        f \in { g \in [1..Len(rows) -> 1..Len(rows)] :
                  \A i, j \in 1..Len(rows) : i # j => g[i] # g[j] } }

InitOrder ==
    /\ pc = "order"
    /\ rowsA \in { s \in DistinctRowSeqs(MaxOrderRows) :
                     s # <<>> /\ PairwiseDistinctPaths(s) }
    /\ rowsB \in RowOrders(rowsA)
    /\ resA = NoResult /\ resB = NoResult
    /\ csvOut = <<>> /\ csvOutB = <<>>
    /\ building = EmptyVfs /\ prev = EmptyVfs /\ row = NoRow /\ nread = 0 /\ loadErr = "none"
    /\ vfs = EmptyVfs
    /\ cur = <<"/">> /\ arg = <<>> /\ resolved = <<>>
    /\ ShellIdle
    /\ FileIdle

LoadA ==
    /\ pc = "order"
    /\ resA.err = "unset"
    /\ resA' = from_csv(rowsA)
    /\ UNCHANGED <<pc, loadVars, csvOut, rowsA, rowsB, resB, csvOutB, pathVars, shellVars, fileVars>>

LoadB ==
    /\ pc = "order"
    /\ resB.err = "unset"
    /\ resB' = from_csv(rowsB)
    /\ UNCHANGED <<pc, loadVars, csvOut, rowsA, rowsB, resA, csvOutB, pathVars, shellVars, fileVars>>

SaveA ==
    /\ pc = "order"
    /\ resA.err = "none"
    /\ csvOut = <<>>
    /\ csvOut' = to_csv(resA.node)
    /\ UNCHANGED <<pc, loadVars, orderVars, pathVars, shellVars, fileVars>>

SaveB ==
    /\ pc = "order"
    /\ resB.err = "none"
    /\ csvOutB = <<>>
    /\ csvOutB' = to_csv(resB.node)
    /\ UNCHANGED <<pc, loadVars, csvOut, rowsA, rowsB, resA, resB, pathVars, shellVars, fileVars>>

NextOrder == LoadA \/ LoadB \/ SaveA \/ SaveB

SpecOrder == InitOrder /\ [][NextOrder]_vars

(***************************************************************************)
(* The queries of Vfs that shell.py calls: find_node, list_dir and         *)
(* compute_size.                                                           *)
(***************************************************************************)
\* The walk of find_node from node along the segments parts.
RECURSIVE find_walk(_, _)
find_walk(node, parts) ==
    IF parts = <<>> THEN [found |-> TRUE, node |-> node]
    ELSE IF ~node.is_dir THEN NotFound
    ELSE LET i == KeyIndex(node.children, Head(parts)) IN
         IF i = 0 THEN NotFound
         ELSE find_walk(node.children[i].node, Tail(parts))

\* Vfs.find_node: the node at an absolute path, NotFound for None.
find_node(root, path) == find_walk(root, NonEmpty(SplitSlash(path)))

\* The recursive size of a node.
RECURSIVE node_size(_)
RECURSIVE children_size(_)
node_size(node) ==
    IF ~node.is_dir THEN Len(node.content) ELSE children_size(node.children)

children_size(children) ==
    IF children = <<>> THEN 0
    ELSE node_size(Head(children).node) + children_size(Tail(children))

\* Vfs.compute_size: ok is FALSE when FileNotFoundError is raised.
compute_size(root, path) ==
    LET f == find_node(root, path) IN
    IF ~f.found THEN [ok |-> FALSE, size |-> 0]
    ELSE [ok |-> TRUE, size |-> node_size(f.node)]

\* Vfs.list_dir: the children of a directory; err names the exception raised.
list_dir(root, path) ==
    LET f == find_node(root, path) IN
    IF ~f.found THEN [err |-> "FileNotFoundError", entries |-> <<>>]
    ELSE IF ~f.node.is_dir THEN [err |-> "NotADirectoryError", entries |-> <<>>]
    ELSE [err |-> "none",
          entries |-> [i \in 1..Len(f.node.children) |-> f.node.children[i].node]]

(***************************************************************************)
(* parse_command_line (parser.py).  A line is the outcome of shlex on it:  *)
(* unbalanced when a quotation is not closed, else its tokens.             *)
(***************************************************************************)
parse_command_line(l) ==
    IF l.unbalanced THEN [ok |-> FALSE, command |-> <<>>, args |-> <<>>]
    ELSE IF l.tokens = <<>> THEN [ok |-> FALSE, command |-> <<>>, args |-> <<>>]
    ELSE [ok |-> TRUE, command |-> Head(l.tokens), args |-> Tail(l.tokens)]

(***************************************************************************)
(* The command handlers of Shell (shell.py).  A handler gives the success  *)
(* flag and the error message it returns, what it prints, the value of     *)
(* current_dir after it, and whether it leaves _running as it is (running  *)
(* is FALSE when the handler sets _running to False).                      *)
(***************************************************************************)
Error(msg, path) == [msg |-> msg, path |-> path]

Output(kind, text, n) == [kind |-> kind, text |-> text, n |-> n]

Handled(success, error, prints, current_dir, is_running, node) ==
    [success |-> success, error |-> error, printed |-> prints,
     cur |-> current_dir, running |-> is_running, looked |-> node]

\* Shell._handle_exit
handle_exit(args, current_dir) ==
    IF args # <<>>
    THEN Handled(FALSE, Error("exit called with arguments", <<>>),
                 <<Output("error", <<>>, 0)>>, current_dir, TRUE, NotFound)
    ELSE Handled(TRUE, NoError, <<>>, current_dir, FALSE, NotFound)

\* Shell._handle_ls
handle_ls(args, current_dir, root) ==
    IF Len(args) > 1
    THEN Handled(FALSE, Error("ls called with too many arguments", <<>>),
                 <<Output("usage", <<>>, 0)>>, current_dir, TRUE, NotFound)
    ELSE LET target == IF args # <<>> THEN args[1] ELSE current_dir
             abs_path == make_abs_path(current_dir, target)
             f == find_node(root, abs_path)
         IN  IF ~f.found
             THEN Handled(FALSE, Error("path not found", abs_path),
                          <<Output("error", abs_path, 0)>>, current_dir, TRUE, f)
             ELSE IF f.node.is_dir THEN
                 LET l == list_dir(root, abs_path) IN
                 IF l.err # "none"
                 THEN Handled(FALSE, Error(l.err, abs_path),
                              <<Output("error", abs_path, 0)>>, current_dir, TRUE, f)
                 ELSE Handled(TRUE, NoError,
                              [i \in 1..Len(l.entries) |->
                                  Output("name",
                                        IF l.entries[i].is_dir
                                        THEN l.entries[i].name \o <<"/">>
                                        ELSE l.entries[i].name, 0)],
                              current_dir, TRUE, f)
             ELSE Handled(TRUE, NoError, <<Output("name", f.node.name, 0)>>,
                          current_dir, TRUE, f)

\* _handle_cd that looks its argument up as given, not the resolved path.
handle_cd_unresolved(args, current_dir, root) ==
    IF Len(args) # 1
    THEN Handled(FALSE, Error("cd called with wrong number of arguments", <<>>),
                 <<Output("usage", <<>>, 0)>>, current_dir, TRUE, NotFound)
    ELSE LET abs_path == make_abs_path(current_dir, args[1])
             f == find_node(root, args[1])
         IN  IF ~f.found
             THEN Handled(FALSE, Error("directory not found", abs_path),
                          <<Output("error", abs_path, 0)>>, current_dir, TRUE, f)
             ELSE IF ~f.node.is_dir
             THEN Handled(FALSE, Error("not a directory", abs_path),
                          <<Output("error", abs_path, 0)>>, current_dir, TRUE, f)
             ELSE Handled(TRUE, NoError, <<>>, abs_path, TRUE, f)

\* _handle_cd that keeps its argument, not the resolved path, as current_dir.
handle_cd_keeps_argument(args, current_dir, root) ==
    IF Len(args) # 1
    THEN Handled(FALSE, Error("cd called with wrong number of arguments", <<>>),
                 <<Output("usage", <<>>, 0)>>, current_dir, TRUE, NotFound)
    ELSE LET abs_path == make_abs_path(current_dir, args[1])
             f == find_node(root, abs_path)
         IN  IF ~f.found
             THEN Handled(FALSE, Error("directory not found", abs_path),
                          <<Output("error", abs_path, 0)>>, current_dir, TRUE, f)
             ELSE IF ~f.node.is_dir
             THEN Handled(FALSE, Error("not a directory", abs_path),
                          <<Output("error", abs_path, 0)>>, current_dir, TRUE, f)
             ELSE Handled(TRUE, NoError, <<>>, args[1], TRUE, f)

\* _handle_cd that assigns current_dir before it tests that the node is a directory.
handle_cd_assigns_early(args, current_dir, root) ==
    IF Len(args) # 1
    THEN Handled(FALSE, Error("cd called with wrong number of arguments", <<>>),
                 <<Output("usage", <<>>, 0)>>, current_dir, TRUE, NotFound)
    ELSE LET abs_path == make_abs_path(current_dir, args[1])
             f == find_node(root, abs_path)
         IN  IF ~f.found
             THEN Handled(FALSE, Error("directory not found", abs_path),
                          <<Output("error", abs_path, 0)>>, current_dir, TRUE, f)
             ELSE IF ~f.node.is_dir
             THEN Handled(FALSE, Error("not a directory", abs_path),
                          <<Output("error", abs_path, 0)>>, abs_path, TRUE, f)
             ELSE Handled(TRUE, NoError, <<>>, abs_path, TRUE, f)

\* Shell._handle_cd
handle_cd(args, current_dir, root) ==
    IF Len(args) # 1
    THEN Handled(FALSE, Error("cd called with wrong number of arguments", <<>>),
                 <<Output("usage", <<>>, 0)>>, current_dir, TRUE, NotFound)
    ELSE LET abs_path == make_abs_path(current_dir, args[1])
             f == find_node(root, abs_path)
         IN  IF ~f.found
             THEN Handled(FALSE, Error("directory not found", abs_path),
                          <<Output("error", abs_path, 0)>>, current_dir, TRUE, f)
             ELSE IF ~f.node.is_dir
             THEN Handled(FALSE, Error("not a directory", abs_path),
                          <<Output("error", abs_path, 0)>>, current_dir, TRUE, f)
             ELSE Handled(TRUE, NoError, <<>>, abs_path, TRUE, f)

\* Shell._handle_clear
handle_clear(args, current_dir) ==
    IF args # <<>>
    THEN Handled(FALSE, Error("clear called with arguments", <<>>),
                 <<Output("usage", <<>>, 0)>>, current_dir, TRUE, NotFound)
    ELSE Handled(TRUE, NoError, <<Output("clear", <<>>, 0)>>, current_dir, TRUE, NotFound)

\* bytes.decode("utf-8", errors="replace") on the bytes the model uses: an
\* ASCII byte is its code point, the byte 255 is never valid and gives U+FFFD.
decode_utf8(bytes) ==
    [i \in 1..Len(bytes) |-> IF bytes[i] < 128 THEN bytes[i] ELSE 65533]

\* str.splitlines() on the text the model uses: "\n", "\r" and "\r\n" end a
\* line, the text after the last line end is a line when it is not empty.
RECURSIVE splitlines_acc(_, _, _)
splitlines_acc(text, piece, acc) ==
    IF text = <<>> THEN IF piece = <<>> THEN acc ELSE Append(acc, piece)
    ELSE IF Head(text) = 13 /\ Len(text) >= 2 /\ text[2] = 10
    THEN splitlines_acc(Tail(Tail(text)), <<>>, Append(acc, piece))
    ELSE IF Head(text) = 10 \/ Head(text) = 13
    THEN splitlines_acc(Tail(text), <<>>, Append(acc, piece))
    ELSE splitlines_acc(Tail(text), Append(piece, Head(text)), acc)

splitlines(text) == splitlines_acc(text, <<>>, <<>>)

\* The loop of _handle_uniq with last_line set to the empty string at first.
RECURSIVE uniq_loop_empty_last(_, _, _)
uniq_loop_empty_last(lines, has_last, last_line) ==
    IF lines = <<>> THEN <<>>
    ELSE IF Head(lines) # last_line
    THEN <<Head(lines)>> \o uniq_loop_empty_last(Tail(lines), TRUE, Head(lines))
    ELSE uniq_loop_empty_last(Tail(lines), has_last, last_line)

\* The loop of Shell._handle_uniq: the lines printed; last_line is None at first.
RECURSIVE uniq_loop(_, _, _)
uniq_loop(lines, has_last, last_line) ==
    IF lines = <<>> THEN <<>>
    ELSE IF ~has_last \/ Head(lines) # last_line
    THEN <<Head(lines)>> \o uniq_loop(Tail(lines), TRUE, Head(lines))
    ELSE uniq_loop(Tail(lines), has_last, last_line)

\* Shell._handle_uniq
handle_uniq(args, current_dir, root) ==
    IF Len(args) # 1
    THEN Handled(FALSE, Error("uniq called with wrong number of arguments", <<>>),
                 <<Output("usage", <<>>, 0)>>, current_dir, TRUE, NotFound)
    ELSE LET abs_path == make_abs_path(current_dir, args[1])
             f == find_node(root, abs_path)
         IN  IF ~f.found
             THEN Handled(FALSE, Error("file not found", abs_path),
                          <<Output("error", abs_path, 0)>>, current_dir, TRUE, f)
             ELSE IF f.node.is_dir
             THEN Handled(FALSE, Error("not a file", abs_path),
                          <<Output("error", abs_path, 0)>>, current_dir, TRUE, f)
             ELSE LET shown == uniq_loop(splitlines(decode_utf8(f.node.content)),
                                         FALSE, <<>>)
                  IN  Handled(TRUE, NoError,
                              [i \in 1..Len(shown) |-> Output("line", shown[i], 0)],
                              current_dir, TRUE, f)

\* _handle_du that reports a missing path as a size of 0.
handle_du_missing_zero(args, current_dir, root) ==
    IF Len(args) > 1
    THEN Handled(FALSE, Error("du called with too many arguments", <<>>),
                 <<Output("usage", <<>>, 0)>>, current_dir, TRUE, NotFound)
    ELSE LET target == IF args # <<>> THEN args[1] ELSE current_dir
             abs_path == make_abs_path(current_dir, target)
             c == compute_size(root, abs_path)
         IN  Handled(TRUE, NoError, <<Output("size", abs_path, c.size)>>,
                     current_dir, TRUE, NotFound)

\* Shell._handle_du
handle_du(args, current_dir, root) ==
    IF Len(args) > 1
    THEN Handled(FALSE, Error("du called with too many arguments", <<>>),
                 <<Output("usage", <<>>, 0)>>, current_dir, TRUE, NotFound)
    ELSE LET target == IF args # <<>> THEN args[1] ELSE current_dir
             abs_path == make_abs_path(current_dir, target)
             c == compute_size(root, abs_path)
         IN  IF ~c.ok
             THEN Handled(FALSE, Error("FileNotFoundError", abs_path),
                          <<Output("error", abs_path, 0)>>, current_dir, TRUE, NotFound)
             ELSE Handled(TRUE, NoError, <<Output("size", abs_path, c.size)>>,
                          current_dir, TRUE, NotFound)

\* Shell._handle_vfs_save; saved tells whether to_csv raised no VfsSaveError.
handle_vfs_save(args, current_dir, saved) ==
    IF Len(args) # 1
    THEN Handled(FALSE, Error("vfs-save called with wrong number of arguments", <<>>),
                 <<Output("usage", <<>>, 0)>>, current_dir, TRUE, NotFound)
    ELSE IF saved
    THEN Handled(TRUE, NoError, <<Output("saved", args[1], 0)>>, current_dir, TRUE, NotFound)
    ELSE Handled(FALSE, Error("VfsSaveError", args[1]),
                 <<Output("error", args[1], 0)>>, current_dir, TRUE, NotFound)

(***************************************************************************)
(* The shell at work (Shell.run): the lines of the start-up script, then   *)
(* the interactive loop.  One action per command of _dispatch_command,     *)
(* each with the parse of the line before it and the logger.log after it.  *)
(***************************************************************************)
MaxCommands == 2
MaxContentLen == 4

ExitCmd == <<"e", "x", "i", "t">>
LsCmd == <<"l", "s">>
CdCmd == <<"c", "d">>
ClearCmd == <<"c", "l", "e", "a", "r">>
UniqCmd == <<"u", "n", "i", "q">>
DuCmd == <<"d", "u">>
VfsSaveCmd == <<"v", "f", "s", "-", "s", "a", "v", "e">>
ParseErrorCmd == <<"(", "p", "a", "r", "s", "e", "-", "e", "r", "r", "o", "r", ")">>

KnownCommands == {ExitCmd, LsCmd, CdCmd, ClearCmd, UniqCmd, DuCmd, VfsSaveCmd}

Commands == KnownCommands \cup {<<"f", "o", "o">>}

Docs == <<"d", "o", "c", "s">>
Readme == <<"r", "e", "a", "d", "m", "e", ".", "t", "x", "t">>
Empty == <<"e", "m", "p", "t", "y">>
Nope == <<"n", "o", "p", "e">>

\* The bytes of "Hello, World!".
HelloWorld == <<72, 101, 108, 108, 111, 44, 32, 87, 111, 114, 108, 100, 33>>

ShellArgs ==
    { <<"/">>, <<"a">>, <<"b">>, <<"x">>, <<".", ".">>,
      <<"/", "a", "/", "/", "x", "/", ".">>, <<".", "/", "a", "/">>,
      <<"/", "a", "/", "b">>, <<"/", "a", "/", "b", "/", "c">>,
      <<"/">> \o Nope, <<"/">> \o Docs,
      <<"/">> \o Docs \o <<"/">> \o Readme,
      <<"/">> \o Docs \o <<"/">> \o Empty }

ArgLists ==
    {<<>>} \cup { <<a>> : a \in ShellArgs } \cup { << <<"/">>, <<"a">> >> }

RECURSIVE JoinSpace(_)
JoinSpace(tokens) ==
    IF tokens = <<>> THEN <<>>
    ELSE IF Len(tokens) = 1 THEN Head(tokens)
    ELSE Head(tokens) \o <<" ">> \o JoinSpace(Tail(tokens))

Lines ==
    { [raw |-> JoinSpace(<<c>> \o al), unbalanced |-> FALSE, tokens |-> <<c>> \o al] :
        c \in Commands, al \in ArgLists }
    \cup { [raw |-> <<"l", "s", " ", "'", "a">>, unbalanced |-> TRUE, tokens |-> <<>>],
           [raw |-> <<"\"">>, unbalanced |-> TRUE, tokens |-> <<>>] }

\* The contents of the file /a/b while the whole shell is explored.
ShellContents == { <<>>, <<65, 10, 10, 65>> }

\* The contents of the file /a/b while uniq is explored: the texts of 'A',
\* line feeds and carriage returns, and texts with another letter, with a
\* byte that is not UTF-8 and with equal lines that are not adjacent.
UniqContents ==
    StringsUpTo({65, 10, 13}, MaxContentLen)
    \cup { <<255>>, <<65, 255>>, <<66, 10, 65>>, <<65, 10, 66, 10, 65>>,
           <<65, 10, 65, 10, 66, 10, 66>> }

FileRow(path, content) ==
    [path |-> path, type |-> FileType, content_base64 |-> b64encode(content)]

DirRow(path) == [path |-> path, type |-> DirType, content_base64 |-> <<>>]

ShellTree(content) ==
    from_csv(<< DirRow(<<"/", "a">>),
                FileRow(<<"/", "a", "/", "b">>, content),
                DirRow(<<"/", "a", "/", "x">>),
                FileRow(<<"/", "y">>, <<65, 65>>) >>).node

\* The sample tree: /docs/readme.txt of 13 bytes and the empty /docs/empty.
SampleTree ==
    from_csv(<< DirRow(<<"/">> \o Docs),
                FileRow(<<"/">> \o Docs \o <<"/">> \o Readme, HelloWorld),
                DirRow(<<"/">> \o Docs \o <<"/">> \o Empty) >>).node

ShellTrees == { ShellTree(c) : c \in ShellContents } \cup {SampleTree}

ContentTrees == { ShellTree(c) : c \in UniqContents } \cup {SampleTree}

ShellStarts(sources, trees) ==
    /\ pc \in sources
    /\ vfs \in trees
    /\ building = vfs
    /\ prev = EmptyVfs
    /\ row = NoRow
    /\ nread = 0
    /\ loadErr = "none"
    /\ csvOut = <<>>
    /\ rowsA = <<>> /\ rowsB = <<>> /\ resA = NoResult /\ resB = NoResult
    /\ csvOutB = <<>>
    /\ cur = <<"/">> /\ arg = <<>> /\ resolved = <<>>
    /\ ShellIdle
    /\ FileIdle

InitShell == ShellStarts({"script", "interactive"}, ShellTrees)

\* A line is handed to _process_line: any line of the script, and a line of
\* the interactive loop while _running holds.
CanProcess ==
    /\ pc = "script" \/ (pc = "interactive" /\ running)
    /\ nlines < MaxCommands

\* What a processed line leaves behind in the shell.
Processed(l, h) ==
    /\ line' = l
    /\ nlines' = nlines + 1
    /\ printed' = h.printed
    /\ cur' = h.cur
    /\ running' = (running /\ h.running)
    /\ looked' = h.looked

\* The call of logger.log.
Logged(command, args, success, error) ==
    /\ nlogs' = nlogs + 1
    /\ lastLog' = [command |-> command, args |-> args,
                   success |-> success, error |-> error]

\* The handler that _dispatch_command calls for a command other than vfs-save.
run_handler(command, args, current_dir, root) ==
    IF command = ExitCmd THEN handle_exit(args, current_dir)
    ELSE IF command = LsCmd THEN handle_ls(args, current_dir, root)
    ELSE IF command = CdCmd THEN handle_cd(args, current_dir, root)
    ELSE IF command = ClearCmd THEN handle_clear(args, current_dir)
    ELSE IF command = UniqCmd THEN handle_uniq(args, current_dir, root)
    ELSE handle_du(args, current_dir, root)

\* _dispatch_command that logs only the commands that succeed.
DispatchLoggingSuccess(name) ==
    /\ CanProcess
    /\ \E l \in Lines :
         LET p == parse_command_line(l) IN
         /\ p.ok
         /\ p.command = name
         /\ \E h \in {run_handler(name, p.args, cur, vfs)} :
              /\ Processed(l, h)
              /\ IF h.success
                 THEN Logged(p.command, p.args, h.success, h.error)
                 ELSE UNCHANGED <<nlogs, lastLog>>
    /\ UNCHANGED <<pc, loadVars, csvOut, orderVars, arg, resolved, fileVars>>

\* _dispatch_command for the command named name, with the parse before it.
Dispatch(name) ==
    /\ CanProcess
    /\ \E l \in Lines :
         LET p == parse_command_line(l) IN
         /\ p.ok
         /\ p.command = name
         /\ \E h \in {run_handler(name, p.args, cur, vfs)} :
              /\ Processed(l, h)
              /\ Logged(p.command, p.args, h.success, h.error)
    /\ UNCHANGED <<pc, loadVars, csvOut, orderVars, arg, resolved, fileVars>>

\* _process_line on a line that parse_command_line rejects.
ParseError ==
    /\ CanProcess
    /\ \E l \in Lines :
         /\ ~parse_command_line(l).ok
         /\ Processed(l, Handled(FALSE, Error("parse", l.raw),
                                 <<Output("error", l.raw, 0)>>, cur, running, NotFound))
         /\ Logged(ParseErrorCmd, <<l.raw>>, FALSE, Error("parse", l.raw))
    /\ UNCHANGED <<pc, loadVars, csvOut, orderVars, arg, resolved, fileVars>>

CmdExit == Dispatch(ExitCmd)

CmdLs == Dispatch(LsCmd)

\* cd that makes the directory it does not find.
CmdCdCreating ==
    /\ CanProcess
    /\ \E l \in Lines :
         LET p == parse_command_line(l) IN
         /\ p.ok
         /\ p.command = CdCmd
         /\ \E h \in {handle_cd(p.args, cur, vfs)} :
              /\ Processed(l, h)
              /\ Logged(p.command, p.args, h.success, h.error)
              /\ vfs' = IF Len(p.args) = 1 /\ ~h.looked.found
                        THEN insert_row(vfs, make_abs_path(cur, p.args[1]),
                                        DirType, <<>>).node
                        ELSE vfs
    /\ UNCHANGED <<pc, building, prev, row, nread, loadErr, csvOut, orderVars,
                   arg, resolved, fileVars>>

CmdCd == Dispatch(CdCmd)

CmdClear == Dispatch(ClearCmd)

CmdUniq == Dispatch(UniqCmd)

CmdDu == Dispatch(DuCmd)

\* vfs-save: to_csv writes the file, or raises VfsSaveError and writes nothing.
CmdVfsSave ==
    /\ CanProcess
    /\ \E l \in Lines, saved \in BOOLEAN :
         LET p == parse_command_line(l) IN
         /\ p.ok
         /\ p.command = VfsSaveCmd
         /\ \E h \in {handle_vfs_save(p.args, cur, saved)} :
              /\ Processed(l, h)
              /\ Logged(p.command, p.args, h.success, h.error)
              /\ csvOut' = IF h.success THEN to_csv(vfs) ELSE csvOut
    /\ UNCHANGED <<pc, loadVars, orderVars, arg, resolved, fileVars>>

\* The last branch of _dispatch_command: the command has no handler.
CmdUnknown ==
    /\ CanProcess
    /\ \E l \in Lines :
         LET p == parse_command_line(l) IN
         /\ p.ok
         /\ p.command \notin KnownCommands
         /\ Processed(l, Handled(FALSE, Error("unknown command", p.command),
                                 <<Output("error", p.command, 0)>>, cur, running, NotFound))
         /\ Logged(p.command, p.args, FALSE, Error("unknown command", p.command))
    /\ UNCHANGED <<pc, loadVars, csvOut, orderVars, arg, resolved, fileVars>>

\* The script has no more lines: Shell.run enters the interactive loop.
EndOfScript ==
    /\ pc = "script"
    /\ pc' = "interactive"
    /\ UNCHANGED <<loadVars, csvOut, orderVars, pathVars, shellVars, fileVars>>

\* The interactive loop ends: _running is false, or input() raises EOFError.
EndOfInput ==
    /\ pc = "interactive"
    /\ pc' = "stopped"
    /\ UNCHANGED <<loadVars, csvOut, orderVars, pathVars, shellVars, fileVars>>

NextShell ==
    \/ ParseError
    \/ CmdExit
    \/ CmdLs
    \/ CmdCd
    \/ CmdClear
    \/ CmdUniq
    \/ CmdDu
    \/ CmdVfsSave
    \/ CmdUnknown
    \/ EndOfScript
    \/ EndOfInput

SpecShell == InitShell /\ [][NextShell]_vars

(***************************************************************************)
(* uniq at the interactive prompt, over many contents of /a/b.             *)
(***************************************************************************)
InitContent == ShellStarts({"interactive"}, ContentTrees)

NextContent == CmdUniq

SpecContent == InitContent /\ [][NextContent]_vars

(***************************************************************************)
(* Vfs.from_csv on a whole file: the header that csv.DictReader reads, the *)
(* check of the required columns, then the loop over the records.          *)
(***************************************************************************)
MaxFileRows == 2

RequiredFields == {"path", "type", "content_base64"}

Range(f) == { f[i] : i \in 1..Len(f) }

\* row.get(field) or "" on the dict that DictReader makes of a record: the
\* cell at the last position of the field in the header, "" for None.
dict_get(header, record, field) ==
    LET at == { i \in 1..Len(header) : header[i] = field /\ i <= Len(record) } IN
    IF at = {} THEN <<>>
    ELSE record[CHOOSE i \in at : \A j \in at : j <= i]

dict_row(header, record) ==
    [path |-> dict_get(header, record, "path"),
     type |-> dict_get(header, record, "type"),
     content_base64 |-> dict_get(header, record, "content_base64")]

\* The loop of from_csv over the records; seen counts the rows it has read.
RECURSIVE read_rows(_, _, _, _)
read_rows(root, header, recs, seen) ==
    IF recs = <<>> THEN [err |-> "none", node |-> root, seen |-> seen]
    ELSE LET r == load_row(root, dict_row(header, Head(recs))) IN
         IF r.err # "none" THEN [err |-> r.err, node |-> r.node, seen |-> seen + 1]
         ELSE read_rows(r.node, header, Tail(recs), seen + 1)

\* from_csv that does not check the header.
read_csv_unchecked(header, recs) == read_rows(EmptyVfs, header, recs, 0)

\* Vfs.from_csv on the header and the records of a file.
read_csv(header, recs) ==
    IF ~(RequiredFields \subseteq Range(header))
    THEN [err |-> "header", node |-> EmptyVfs, seen |-> 0]
    ELSE read_rows(EmptyVfs, header, recs, 0)

\* Headers: the three columns in every order, with a fourth column, with a
\* column missing or misspelt, and the header of an empty file.
Headers ==
    { <<"path", "type", "content_base64">>, <<"path", "content_base64", "type">>,
      <<"type", "path", "content_base64">>, <<"type", "content_base64", "path">>,
      <<"content_base64", "path", "type">>, <<"content_base64", "type", "path">>,
      <<"note", "path", "type", "content_base64">>,
      <<"type", "note", "content_base64", "path">>,
      <<"path", "type">>, <<"path", "content_base64">>, <<"type", "content_base64">>,
      <<"path", "type", "content">>, <<"path">>, <<>> }

FileRows ==
    { DirRow(<<"/", "a">>), DirRow(<<"/">>),
      FileRow(<<"/", "a">>, <<65>>), FileRow(<<"/", "a", "/", "b">>, <<255, 0>>),
      [path |-> <<"/", "b">>, type |-> FileType, content_base64 |-> <<16, 16>>],
      [path |-> <<"/", "b">>, type |-> <<"x">>, content_base64 |-> <<>>],
      [path |-> <<>>, type |-> DirType, content_base64 |-> <<>>] }

\* The record of a data row under a header; the cell of another column is "-".
RecordOf(header, r) ==
    [i \in 1..Len(header) |->
        IF header[i] = "path" THEN r.path
        ELSE IF header[i] = "type" THEN r.type
        ELSE IF header[i] = "content_base64" THEN r.content_base64
        ELSE <<"-">>]

InitFile ==
    /\ pc = "file"
    /\ building = EmptyVfs
    /\ prev = EmptyVfs
    /\ row = NoRow
    /\ nread = 0
    /\ loadErr = "none"
    /\ vfs = EmptyVfs
    /\ csvOut = <<>>
    /\ rowsA = <<>> /\ rowsB = <<>> /\ resA = NoResult /\ resB = NoResult
    /\ csvOutB = <<>>
    /\ cur = <<"/">> /\ arg = <<>> /\ resolved = <<>>
    /\ ShellIdle
    /\ FileIdle

\* from_csv reads a file: rowsA keeps the data rows the file was written from.
LoadFile ==
    /\ pc = "file"
    /\ fileRes = NoFileResult
    /\ \E header \in Headers, rs \in StringsUpTo(FileRows, MaxFileRows) :
         LET recs == [i \in 1..Len(rs) |-> RecordOf(header, rs[i])] IN
         /\ fieldnames' = header
         /\ records' = recs
         /\ rowsA' = rs
         /\ fileRes' = read_csv(header, recs)
    /\ pc' = "read"
    /\ UNCHANGED <<loadVars, csvOut, rowsB, resA, resB, csvOutB, pathVars, shellVars>>

NextFile == LoadFile

SpecFile == InitFile /\ [][NextFile]_vars

(***************************************************************************)
(* Observations of a tree, used to state the properties.                   *)
(***************************************************************************)
\* The nodes of the tree under node, each with the keys that lead to it.
RECURSIVE Nodes(_, _)
Nodes(node, segs) ==
    {[segs |-> segs, is_dir |-> node.is_dir, content |-> node.content]}
    \cup UNION { Nodes(node.children[i].node, Append(segs, node.children[i].key)) :
                   i \in 1..Len(node.children) }

DirPaths(root) == {n.segs : n \in {m \in Nodes(root, <<>>) : m.is_dir}}

FilePaths(root) == {n.segs : n \in {m \in Nodes(root, <<>>) : ~m.is_dir}}

FileContents(root) ==
    {<<n.segs, n.content>> : n \in {m \in Nodes(root, <<>>) : ~m.is_dir}}

\* Same directory paths, same file paths, same content of every file.
SameTree(t1, t2) ==
    /\ DirPaths(t1) = DirPaths(t2)
    /\ FilePaths(t1) = FilePaths(t2)
    /\ FileContents(t1) = FileContents(t2)

\* The absolute path of the node reached by the keys segs.
AbsPath(segs) == IF segs = <<>> THEN <<"/">> ELSE <<"/">> \o JoinSlash(segs)

\* The segments of a path field as the loader sees it.
Segments(path) == NonEmpty(SplitSlash(Strip(path)))

IsPrefix(s, t) == Len(s) <= Len(t) /\ SubSeq(t, 1, Len(s)) = s

IsFileAt(root, segs) == segs \in FilePaths(root)

IsDirAt(root, segs) == segs \in DirPaths(root)

ContentAt(root, segs) ==
    (CHOOSE n \in Nodes(root, <<>>) : n.segs = segs).content

\* The last step read a row (prev, row, building and loadErr describe it).
RowWasRead == nread > 0

RowIsFile == Strip(row.type) = FileType

RowIsDir == Strip(row.type) = DirType

(***************************************************************************)
(* C1.  Round trip: loading the rows that to_csv wrote for the shell's     *)
(* tree succeeds and yields a tree with the same directory paths, the same *)
(* file paths and the same content of every file.                          *)
(***************************************************************************)
RoundTrip ==
    csvOut # <<>> =>
        LET r == from_csv(csvOut)
        IN  r.err = "none" /\ SameTree(r.node, vfs)

(***************************************************************************)
(* C2.  Conflict detection: a row whose path has an intermediate segment   *)
(* that is a file node of the tree fails with a load error; the rows       *)
(* (/a, file) then (/a/b, dir) make from_csv fail.                         *)
(***************************************************************************)
FileOnTheWay(root, path) ==
    \E k \in 1..(Len(Segments(path)) - 1) :
        IsFileAt(root, SubSeq(Segments(path), 1, k))

RowA_File == [path |-> <<"/", "a">>, type |-> FileType, content_base64 |-> <<>>]

RowAB_Dir == [path |-> <<"/", "a", "/", "b">>, type |-> DirType, content_base64 |-> <<>>]

ConflictDetection ==
    /\ RowWasRead /\ FileOnTheWay(prev, row.path) => loadErr # "none" /\ pc = "ready"
    /\ RowWasRead /\ prev = from_csv(<<RowA_File>>).node /\ row = RowAB_Dir
           => loadErr = "conflict"

ConflictDetectionWitness ==
    /\ RowWasRead
    /\ prev = from_csv(<<RowA_File>>).node
    /\ row = RowAB_Dir
    /\ loadErr = "conflict"
    /\ pc = "ready"

(***************************************************************************)
(* C3.  Row order: two orderings of rows with pairwise distinct paths      *)
(* either both fail or both produce the same tree.                         *)
(***************************************************************************)
OrderIndependent ==
    resA.err # "unset" /\ resB.err # "unset" =>
        \/ resA.err # "none" /\ resB.err # "none"
        \/ resA.err = "none" /\ resB.err = "none" /\ SameTree(resA.node, resB.node)

(***************************************************************************)
(* C4.  A failed load is all-or-nothing: after a load that raised, the     *)
(* shell's tree is the tree it had before the load, and the shell's tree   *)
(* changes only in the step that ends a load without error.                *)
(***************************************************************************)
FailedLoadKeepsVfs ==
    /\ loadErr # "none" => vfs = EmptyVfs /\ pc = "ready"
    /\ vfs # EmptyVfs => pc = "ready" /\ loadErr = "none" /\ vfs = building

FailedLoadKeepsVfsWitness ==
    /\ pc = "ready"
    /\ loadErr # "none"
    /\ nread >= 2
    /\ FilePaths(building) # {}
    /\ vfs = EmptyVfs

(***************************************************************************)
(* C5.  Node invariant: the root is a directory named "/", every file      *)
(* node has no children, every child is stored under its own name, every   *)
(* name below the root is non-empty and has no "/".                        *)
(***************************************************************************)
RECURSIVE WellFormedBelow(_)
WellFormedBelow(node) ==
    /\ node.is_dir \in BOOLEAN
    /\ ~node.is_dir => node.children = <<>>
    /\ \A i \in 1..Len(node.children) :
         /\ node.children[i].key = node.children[i].node.name
         /\ node.children[i].key # <<>>
         /\ \A k \in 1..Len(node.children[i].key) : node.children[i].key[k] # "/"
         /\ \A j \in 1..Len(node.children) :
              i # j => node.children[i].key # node.children[j].key
         /\ WellFormedBelow(node.children[i].node)

WellFormed(root) ==
    /\ root.name = <<"/">>
    /\ root.is_dir
    /\ WellFormedBelow(root)

NodeInvariant == WellFormed(building) /\ WellFormed(vfs)

NodeInvariantWitness ==
    /\ loadErr # "none"
    /\ nread = MaxRows
    /\ building # prev
    /\ FilePaths(building) # {}
    /\ \E p \in DirPaths(building) : Len(p) >= 2

(***************************************************************************)
(* C6.  Path resolution is the stack algorithm: an input starting with "/" *)
(* starts from the empty stack, any other from the segments of the current *)
(* directory; empty and "." segments are skipped, ".." pops (a no-op on    *)
(* the empty stack), any other segment is pushed; the result is "/" for    *)
(* the empty stack, else "/" and the segments joined by "/".               *)
(***************************************************************************)
\* The stack after the first k segments of segs were processed.
RECURSIVE StackAfter(_, _, _)
StackAfter(seed, segs, k) ==
    IF k = 0 THEN seed
    ELSE LET stack == StackAfter(seed, segs, k - 1)
             seg == segs[k]
         IN  CASE seg = <<>> \/ seg = <<".">> -> stack
               [] seg = <<".", ".">> ->
                    IF stack = <<>> THEN <<>> ELSE SubSeq(stack, 1, Len(stack) - 1)
               [] OTHER -> stack \o <<seg>>

StackResolve(current, input) ==
    LET seed == IF input # <<>> /\ input[1] = "/" THEN <<>>
                ELSE NonEmpty(SplitSlash(current))
        segs == SplitSlash(input)
        stack == StackAfter(seed, segs, Len(segs))
    IN  IF stack = <<>> THEN <<"/">> ELSE <<"/">> \o JoinSlash(stack)

ResolveIsStackAlgorithm ==
    pc = "resolved" =>
        /\ resolved = StackResolve(cur, arg)
        /\ resolved \in Seq(ArgChars \cup {"a", "b", "y"})
        /\ arg = <<".", ".">> /\ cur = <<"/", "a", "/", "b">> => resolved = <<"/", "a">>
        /\ arg = <<".", ".">> /\ cur = <<"/">> => resolved = <<"/">>
        /\ arg = <<".", "/", "x">> /\ cur = <<"/", "a">>
             => resolved = <<"/", "a", "/", "x">>
        /\ arg = <<"/", "x", "/", ".", ".", "/", "y">> => resolved = <<"/", "y">>

ResolveIsStackAlgorithmWitness ==
    /\ pc = "resolved"
    /\ arg = <<"x", "/", ".", ".">>
    /\ cur = <<"/", "a", "/", "b">>
    /\ resolved = <<"/", "a", "/", "b">>

(***************************************************************************)
(* C7.  Serialization is deterministic: two trees that hold the same nodes *)
(* and whose children were inserted in different orders are written as the *)
(* same rows.                                                              *)
(***************************************************************************)
SaveIgnoresInsertionOrder ==
    /\ csvOut # <<>> /\ csvOutB # <<>> /\ SameTree(resA.node, resB.node)
           => csvOut = csvOutB
    /\ csvOut # <<>> => csvOut = to_csv(resA.node)

SaveIgnoresInsertionOrderWitness ==
    /\ csvOut # <<>>
    /\ csvOutB # <<>>
    /\ SameTree(resA.node, resB.node)
    /\ resA.node # resB.node
    /\ csvOut = csvOutB

(***************************************************************************)
(* C8.  Serialization order and coverage: one row per node; the first row  *)
(* is ("/", dir, empty); a directory's row precedes the rows of its        *)
(* descendants; siblings are written in ascending order of name, each with *)
(* its whole subtree before the next sibling; a row's path is the node's   *)
(* absolute path; dir rows have an empty content field and file rows the   *)
(* base64 of the content.                                                  *)
(***************************************************************************)
\* The node at segs1 comes before the node at segs2 in a depth-first walk that
\* visits the children of every directory in ascending order of name.
WalkBefore(segs1, segs2) ==
    \/ segs1 # segs2 /\ IsPrefix(segs1, segs2)
    \/ \E k \in 1..Len(segs1) :
         /\ k <= Len(segs2)
         /\ SubSeq(segs1, 1, k - 1) = SubSeq(segs2, 1, k - 1)
         /\ StrLess(segs1[k], segs2[k])

RowIndexOf(rows, segs) == {i \in 1..Len(rows) : rows[i].path = AbsPath(segs)}

LastFileRowWins ==
    ( /\ RowWasRead
      /\ RowIsFile
      /\ StartsWithSlash(Strip(row.path))
      /\ IsFileAt(prev, Segments(row.path))
      /\ b64decode(row.content_base64).ok )
    => /\ loadErr = "none"
       /\ IsFileAt(building, Segments(row.path))
       /\ ContentAt(building, Segments(row.path)) = b64decode(row.content_base64).bytes
       /\ DirPaths(building) = DirPaths(prev)
       /\ FilePaths(building) = FilePaths(prev)
       /\ \A f \in FilePaths(prev) :
            f # Segments(row.path) => ContentAt(building, f) = ContentAt(prev, f)

LastFileRowWinsWitness ==
    /\ RowWasRead
    /\ RowIsFile
    /\ loadErr = "none"
    /\ IsFileAt(prev, Segments(row.path))
    /\ ContentAt(prev, Segments(row.path)) = <<65>>
    /\ ContentAt(building, Segments(row.path)) = <<255, 0>>
    /\ Cardinality(DirPaths(prev)) >= 2

(***************************************************************************)
(* C10.  Re-declaring a directory is idempotent: a dir row for a path      *)
(* below the root that is already a directory raises no error and leaves   *)
(* the tree unchanged.                                                     *)
(***************************************************************************)
RedeclaredDirUnchanged ==
    ( /\ RowWasRead
      /\ RowIsDir
      /\ StartsWithSlash(Strip(row.path))
      /\ Segments(row.path) # <<>>
      /\ IsDirAt(prev, Segments(row.path)) )
    => /\ loadErr = "none"
       /\ building = prev

\* The re-declared directory has a child.
RedeclaredDirUnchangedWitness ==
    /\ RowWasRead
    /\ RowIsDir
    /\ loadErr = "none"
    /\ Segments(row.path) # <<>>
    /\ IsDirAt(prev, Segments(row.path))
    /\ \E p \in DirPaths(prev) \cup FilePaths(prev) :
         p # Segments(row.path) /\ IsPrefix(Segments(row.path), p)
    /\ building = prev

(***************************************************************************)
(* Observations of a step of the shell, used to state the properties.      *)
(***************************************************************************)
\* The step processes a line.
LineStep == nlines' = nlines + 1

\* The step processes a line whose command is name, with one argument.
OneArgStep(name) ==
    /\ LineStep
    /\ ~line'.unbalanced
    /\ Len(line'.tokens) = 2
    /\ line'.tokens[1] = name

\* The absolute path the step's handler resolves its argument to.
StepPath == make_abs_path(cur, line'.tokens[2])

\* The keys from the root down to the node an absolute path names.
PathKeys(path) == NonEmpty(SplitSlash(path))

\* The name of the node an absolute path names: its last segment, "/" for the root.
LastKey(path) ==
    IF PathKeys(path) = <<>> THEN <<"/">> ELSE PathKeys(path)[Len(PathKeys(path))]

(***************************************************************************)
(* C11.  Find node by absolute path: the lookup that cd, ls and uniq make  *)
(* returns the node reached by following the segments of the resolved      *)
(* path through children from the root; it returns the value 'not found'   *)
(* exactly when no node lies at these segments (a segment is missing or an *)
(* intermediate segment is a file); the path '/' returns the root node.    *)
(***************************************************************************)
FindNodeContract ==
    [][ \A name \in {CdCmd, LsCmd, UniqCmd} :
          OneArgStep(name) =>
            /\ looked'.found <=> \E n \in Nodes(vfs, <<>>) : n.segs = PathKeys(StepPath)
            /\ looked'.found =>
                 /\ looked'.node.name = LastKey(StepPath)
                 /\ looked'.node.is_dir = IsDirAt(vfs, PathKeys(StepPath))
                 /\ looked'.node.content = ContentAt(vfs, PathKeys(StepPath))
                 /\ Nodes(looked'.node, PathKeys(StepPath)) \subseteq Nodes(vfs, <<>>)
            /\ StepPath = <<"/">> => looked'.found /\ looked'.node = vfs
            /\ ( /\ vfs = SampleTree
                 /\ StepPath = <<"/">> \o Docs \o <<"/">> \o Readme )
               => /\ looked'.found
                  /\ ~looked'.node.is_dir
                  /\ looked'.node.content = HelloWorld
            /\ (vfs = SampleTree /\ StepPath = <<"/">> \o Nope) => ~looked'.found
      ]_vars

\* cd to a path below the file /a/b: the lookup gives 'not found' and cd fails.
FindNodeContractWitness ==
    /\ lastLog.command = CdCmd
    /\ lastLog.args = << <<"/", "a", "/", "b", "/", "c">> >>
    /\ IsFileAt(vfs, << <<"a">>, <<"b">> >>)
    /\ looked = NotFound
    /\ ~lastLog.success
    /\ lastLog.error = Error("directory not found", <<"/", "a", "/", "b", "/", "c">>)

(***************************************************************************)
(* C12.  Recursive size: for an existing path du prints the size of the    *)
(* node, which is the length of the content of a file and the sum of the   *)
(* sizes of the children of a directory (0 when it has none); for a        *)
(* missing path du prints no size and reports failure.                     *)
(***************************************************************************)
\* The keys of the children of the directory at segs.
ChildKeys(root, segs) ==
    { n.segs : n \in { m \in Nodes(root, <<>>) :
                         Len(m.segs) = Len(segs) + 1 /\ IsPrefix(segs, m.segs) } }

RECURSIVE SizeAt(_, _)
RECURSIVE SumSizes(_, _)
SizeAt(root, segs) ==
    IF IsFileAt(root, segs) THEN Len(ContentAt(root, segs))
    ELSE SumSizes(root, ChildKeys(root, segs))

SumSizes(root, keys) ==
    IF keys = {} THEN 0
    ELSE LET k == CHOOSE x \in keys : TRUE IN
         SizeAt(root, k) + SumSizes(root, keys \ {k})

\* The step processes a du line with at most one argument.
DuStep ==
    /\ LineStep
    /\ ~line'.unbalanced
    /\ Len(line'.tokens) \in {1, 2}
    /\ line'.tokens[1] = DuCmd

\* The absolute path du reports on.
DuPath ==
    make_abs_path(cur, IF Len(line'.tokens) = 2 THEN line'.tokens[2] ELSE cur)

RecursiveSize ==
    [][ DuStep =>
          /\ (\E n \in Nodes(vfs, <<>>) : n.segs = PathKeys(DuPath))
             => /\ lastLog'.success
                /\ printed' = <<Output("size", DuPath, SizeAt(vfs, PathKeys(DuPath)))>>
          /\ ~(\E n \in Nodes(vfs, <<>>) : n.segs = PathKeys(DuPath))
             => /\ ~lastLog'.success
                /\ \A i \in 1..Len(printed') : printed'[i].kind # "size"
          /\ (vfs = SampleTree /\ lastLog'.success)
             => printed'[1].n =
                  IF DuPath \in {<<"/">>, <<"/">> \o Docs,
                                 <<"/">> \o Docs \o <<"/">> \o Readme}
                  THEN 13 ELSE 0
      ]_vars

\* du /docs on the sample tree prints 13.
RecursiveSizeWitness ==
    /\ vfs = SampleTree
    /\ lastLog.command = DuCmd
    /\ lastLog.args = << <<"/">> \o Docs >>
    /\ lastLog.success
    /\ printed = <<Output("size", <<"/">> \o Docs, 13)>>

(***************************************************************************)
(* C13.  Malformed header: when the header lacks one of the columns path,  *)
(* type and content_base64, from_csv fails with the header error before it *)
(* reads any data row, whatever the data rows are; with the three columns  *)
(* present in any order, the outcome is the one of the data rows.          *)
(***************************************************************************)
FileWasRead == pc = "read"

MalformedHeader ==
    FileWasRead =>
      /\ ~(RequiredFields \subseteq Range(fieldnames))
         => /\ fileRes.err = "header"
            /\ fileRes.seen = 0
            /\ fileRes.node = EmptyVfs
      /\ RequiredFields \subseteq Range(fieldnames)
         => /\ fileRes.err = from_csv(rowsA).err
            /\ fileRes.node = from_csv(rowsA).node
            /\ fileRes.err # "header"

\* The header lacks content_base64 and the file has data rows that would load.
MalformedHeaderWitness ==
    /\ FileWasRead
    /\ fieldnames = <<"path", "type">>
    /\ Len(records) = 2
    /\ from_csv(rowsA).err = "none"
    /\ fileRes.err = "header"
    /\ fileRes.seen = 0

(***************************************************************************)
(* C14, as claimed.  Root rows: a row whose path is '/' with type 'dir'    *)
(* leaves the tree unchanged and raises no error; a row whose path is '/'  *)
(* with any other type fails with a load error.                            *)
(***************************************************************************)
RootRowsAsClaimed ==
    (RowWasRead /\ row.path = <<"/">>) =>
      IF row.type = DirType
      THEN loadErr = "none" /\ building = prev
      ELSE loadErr # "none"

(***************************************************************************)
(* C14, amended.  Root rows: a row whose path is '/' and whose type is     *)
(* 'dir' once the white space around the type field is stripped leaves the *)
(* tree unchanged and raises no error; a row whose path is '/' with any    *)
(* other stripped type fails with the root-type load error.                *)
(***************************************************************************)
RootRows ==
    (RowWasRead /\ row.path = <<"/">>) =>
      IF Strip(row.type) = DirType
      THEN loadErr = "none" /\ building = prev
      ELSE loadErr = "root" /\ building = prev

\* A root row of type ' dir' read into a tree that has a node: nothing changes.
RootRowsWitness ==
    /\ RowWasRead
    /\ row.path = <<"/">>
    /\ row.type = <<" ">> \o DirType
    /\ loadErr = "none"
    /\ prev # EmptyVfs
    /\ building = prev

(***************************************************************************)
(* C15, as claimed.  Type validation: every data row whose type field is   *)
(* neither exactly 'dir' nor exactly 'file' makes from_csv fail with a     *)
(* load error that names the row's path; no such row is accepted.          *)
(***************************************************************************)
\* The load errors whose message holds the path of the row; the error of a
\* blank path field counts as one.
NamesPath == {"type", "root", "path", "empty"}

TypeValidationAsClaimed ==
    (RowWasRead /\ row.type \notin {DirType, FileType}) =>
      /\ loadErr \in NamesPath
      /\ pc = "ready"

(***************************************************************************)
(* C15, amended.  Type validation: every data row whose type field, once   *)
(* the white space around it is stripped, is neither 'dir' nor 'file'      *)
(* makes from_csv fail with a load error; no such row is accepted.  The    *)
(* error is the invalid-type error naming the row's path when the path is  *)
(* a valid path below the root with no file at a segment before the last;  *)
(* it is the path-conflict error naming that segment when there is such a  *)
(* file, and the error of the path when the path is blank, not absolute,   *)
(* the root or made of '/' only.                                           *)
(***************************************************************************)
RowTypeInvalid == Strip(row.type) \notin {DirType, FileType}

TypeValidation ==
    (RowWasRead /\ RowTypeInvalid) =>
      /\ loadErr # "none"
      /\ pc = "ready"
      /\ vfs = EmptyVfs
      /\ loadErr =
           IF Strip(row.path) = <<>> THEN "empty"
           ELSE IF ~StartsWithSlash(Strip(row.path)) THEN "path"
           ELSE IF Strip(row.path) = <<"/">> THEN "root"
           ELSE IF Segments(row.path) = <<>> THEN "path"
           ELSE IF FileOnTheWay(prev, row.path) THEN "conflict"
           ELSE "type"

\* A row of type 'x' for a path that is a file already: the invalid-type error.
TypeValidationWitness ==
    /\ RowWasRead
    /\ row.type = <<"x">>
    /\ Segments(row.path) # <<>>
    /\ IsFileAt(prev, Segments(row.path))
    /\ loadErr = "type"
    /\ pc = "ready"

(***************************************************************************)
(* C16.  Path validation: every data row whose path field is empty, or     *)
(* whose path field does not start with '/', makes from_csv fail with a    *)
(* load error; no such row inserts a node.                                 *)
(***************************************************************************)
PathValidation ==
    (RowWasRead /\ (row.path = <<>> \/ ~StartsWithSlash(row.path))) =>
      /\ loadErr # "none"
      /\ building = prev

(***************************************************************************)
(* C17, as claimed.  Empty segments are discarded on insertion: the        *)
(* insertion of a row whose path has repeated, leading-double or trailing  *)
(* '/' behaves like the insertion of the path obtained by dropping the     *)
(* empty segments: both fail, or both succeed with the same tree; this for *)
(* every such path, those whose segments are all empty included.           *)
(***************************************************************************)
\* _insert_row on the tree before the row, for the path of the row with its
\* empty segments dropped.
InsertWithoutEmptySegments ==
    insert_row(prev, AbsPath(Segments(row.path)), Strip(row.type), row.content_base64)

EmptySegmentsAsClaimed ==
    (RowWasRead /\ StartsWithSlash(Strip(row.path))) =>
      /\ (loadErr = "none") <=> (InsertWithoutEmptySegments.err = "none")
      /\ loadErr = "none" => building = InsertWithoutEmptySegments.node

(***************************************************************************)
(* C17, amended.  Empty segments are discarded on insertion: the insertion *)
(* of a row whose path has repeated, leading-double or trailing '/' and at *)
(* least one segment that is not empty behaves exactly like the insertion  *)
(* of the path obtained by dropping the empty segments, giving the same    *)
(* tree and the same error; a path of two or more '/' and nothing else     *)
(* fails with a load error whatever the type of the row.                   *)
(***************************************************************************)
EmptySegments ==
    (RowWasRead /\ StartsWithSlash(Strip(row.path))) =>
      /\ Segments(row.path) # <<>>
         => /\ loadErr = InsertWithoutEmptySegments.err
            /\ building = InsertWithoutEmptySegments.node
      /\ (Segments(row.path) = <<>> /\ Strip(row.path) # <<"/">>)
         => loadErr = "path" /\ building = prev

\* The row /a/b/ puts the node b under a, as the row /a/b does.
EmptySegmentsWitness ==
    /\ RowWasRead
    /\ row.path = <<"/", "a", "/", "b", "/">>
    /\ loadErr = "none"
    /\ building # prev
    /\ << <<"a">>, <<"b">> >> \in DirPaths(building) \cup FilePaths(building)
    /\ Cardinality(DirPaths(building) \cup FilePaths(building)) = 3

(***************************************************************************)
(* C18.  The tree is read-only once loaded: no step of the shell (ls, cd,  *)
(* clear, uniq, du, vfs-save with its serialization, exit, an unknown      *)
(* command, a line that fails to parse), successful or failed, changes a   *)
(* node, a name or a content of the VFS tree.                              *)
(***************************************************************************)
TreeReadOnly ==
    [][ /\ SameTree(vfs, vfs')
        /\ vfs' = vfs
        /\ LineStep => vfs' = building ]_vars

\* A vfs-save that wrote the file, then a cd that failed: the tree is the one loaded.
TreeReadOnlyWitness ==
    /\ nlines = 2
    /\ csvOut # <<>>
    /\ lastLog.command = CdCmd
    /\ ~lastLog.success
    /\ vfs = building
    /\ vfs # EmptyVfs

(***************************************************************************)
(* C19.  One log event per invocation: every line handed to _process_line  *)
(* causes exactly one call of logger.log and no other step causes one; a   *)
(* line that fails to parse is logged with command '(parse-error)', the    *)
(* line as its argument and success false; a dispatched command is logged  *)
(* with its name, its arguments and the success flag and error message its *)
(* handler returned; an unknown command is logged with success false.      *)
(***************************************************************************)
\* What the handler of a command other than vfs-save returns in this state.
Returned(command, args) ==
    IF command = ExitCmd THEN handle_exit(args, cur)
    ELSE IF command = LsCmd THEN handle_ls(args, cur, vfs)
    ELSE IF command = CdCmd THEN handle_cd(args, cur, vfs)
    ELSE IF command = ClearCmd THEN handle_clear(args, cur)
    ELSE IF command = UniqCmd THEN handle_uniq(args, cur, vfs)
    ELSE handle_du(args, cur, vfs)

OneLogPerLine ==
    [][ /\ nlogs' = nlines'
        /\ ~LineStep => nlogs' = nlogs /\ lastLog' = lastLog
        /\ LineStep =>
             /\ nlogs' = nlogs + 1
             /\ (lastLog'.success <=> lastLog'.error = NoError)
             /\ line'.unbalanced =>
                  /\ lastLog'.command = ParseErrorCmd
                  /\ lastLog'.args = <<line'.raw>>
                  /\ ~lastLog'.success
             /\ ~line'.unbalanced =>
                  /\ lastLog'.command = Head(line'.tokens)
                  /\ lastLog'.args = Tail(line'.tokens)
                  /\ Head(line'.tokens) \notin KnownCommands => ~lastLog'.success
                  /\ Head(line'.tokens) \in KnownCommands \ {VfsSaveCmd} =>
                       /\ lastLog'.success =
                            Returned(Head(line'.tokens), Tail(line'.tokens)).success
                       /\ lastLog'.error =
                            Returned(Head(line'.tokens), Tail(line'.tokens)).error
                  /\ Head(line'.tokens) = VfsSaveCmd =>
                       /\ lastLog'.success =>
                            Len(line'.tokens) = 2 /\ csvOut' = to_csv(vfs)
                       /\ ~lastLog'.success => csvOut' = csvOut
                       /\ Len(line'.tokens) # 2 => ~lastLog'.success
      ]_vars

\* Two lines were processed, the second one a cd that failed: two log calls.
OneLogPerLineWitness ==
    /\ nlines = 2
    /\ nlogs = 2
    /\ line.tokens = <<CdCmd, <<"/">> \o Nope>>
    /\ lastLog.command = CdCmd
    /\ lastLog.args = << <<"/">> \o Nope >>
    /\ ~lastLog.success
    /\ lastLog.error = Error("directory not found", <<"/">> \o Nope)

(***************************************************************************)
(* C20.  uniq removes adjacent duplicates: for a file, the lines uniq      *)
(* prints are the lines of the file with each maximal run of consecutive   *)
(* equal lines collapsed to one, in the original order: the first line is  *)
(* printed, no two consecutive printed lines are equal, and equal lines    *)
(* that are not adjacent are both printed.  For a missing path or a        *)
(* directory uniq prints no line of a file and reports failure.            *)
(***************************************************************************)
\* The lines of the file at an absolute path.
LinesAt(root, path) == splitlines(decode_utf8(ContentAt(root, PathKeys(path))))

\* The positions of the lines that start a run of equal lines.
RunStarts(lines) == { i \in 1..Len(lines) : i = 1 \/ lines[i] # lines[i - 1] }

\* The k-th smallest element of a set of numbers.
Kth(S, k) == CHOOSE i \in S : Cardinality({ j \in S : j < i }) = k - 1

UniqCollapsesRuns ==
    [][ OneArgStep(UniqCmd) =>
          /\ IsFileAt(vfs, PathKeys(StepPath)) =>
               LET lines == LinesAt(vfs, StepPath)
                   starts == RunStarts(lines)
               IN  /\ lastLog'.success
                   /\ Len(printed') = Cardinality(starts)
                   /\ \A k \in 1..Len(printed') :
                        printed'[k] = Output("line", lines[Kth(starts, k)], 0)
                   /\ lines # <<>> => printed'[1].text = lines[1]
                   /\ \A k \in 1..(Len(printed') - 1) :
                        printed'[k].text # printed'[k + 1].text
          /\ ~IsFileAt(vfs, PathKeys(StepPath)) =>
               /\ ~lastLog'.success
               /\ \A k \in 1..Len(printed') : printed'[k].kind # "line"
      ]_vars

\* The lines A, A, B, B are printed as A, B.
UniqCollapsesRunsWitness ==
    /\ lastLog.command = UniqCmd
    /\ lastLog.success
    /\ looked.found
    /\ looked.node.content = <<65, 10, 65, 10, 66, 10, 66>>
    /\ printed = <<Output("line", <<65>>, 0), Output("line", <<66>>, 0)>>

(***************************************************************************)
(* C21.  Once an exit without arguments has succeeded (_running is false), *)
(* no further line is parsed, dispatched or logged, whether the exit came  *)
(* from the interactive prompt or from a line of the start-up script; an   *)
(* exit with arguments does not stop the shell and is reported as failure. *)
(***************************************************************************)
\* The step processes an exit line with arguments.
ExitWithArgsStep ==
    /\ LineStep
    /\ ~line'.unbalanced
    /\ Len(line'.tokens) > 1
    /\ line'.tokens[1] = ExitCmd

ExitStopsShell ==
    [][ /\ ~running => /\ nlines' = nlines
                       /\ nlogs' = nlogs
                       /\ line' = line
        /\ ExitWithArgsStep => /\ running' = running
                               /\ ~lastLog'.success
      ]_vars

(***************************************************************************)
(* C22.  Current-directory invariant: current_dir starts as '/', and after *)
(* any sequence of commands it is a normalized absolute path (it starts    *)
(* with '/', has no empty, '.' or '..' segment and no trailing '/' unless  *)
(* it is '/') that names a directory of the loaded VFS.                    *)
(***************************************************************************)
\* The segments of an absolute path, the empty ones kept.
RawSegments(path) == SplitSlash(Tail(path))

Normalized(path) ==
    /\ path # <<>>
    /\ Head(path) = "/"
    /\ path # <<"/">> =>
         /\ path[Len(path)] # "/"
         /\ \A i \in 1..Len(RawSegments(path)) :
              RawSegments(path)[i] \notin {<<>>, <<".">>, <<".", ".">>}

CurrentDirInvariant ==
    /\ nlines = 0 => cur = <<"/">>
    /\ Normalized(cur)
    /\ IsDirAt(vfs, IF cur = <<"/">> THEN <<>> ELSE RawSegments(cur))

\* cd /a//x/. was the last line: current_dir is /a/x.
CurrentDirInvariantWitness ==
    /\ lastLog.command = CdCmd
    /\ lastLog.args = << <<"/", "a", "/", "/", "x", "/", ".">> >>
    /\ lastLog.success
    /\ cur = <<"/", "a", "/", "x">>
    /\ IsDirAt(vfs, << <<"a">>, <<"x">> >>)

(***************************************************************************)
(* C23.  current_dir changes only by a successful cd: a cd with a wrong    *)
(* number of arguments, a cd to a path that is not found and a cd to a     *)
(* file leave current_dir unchanged and return failure; every other        *)
(* command, a line that fails to parse and every other step leave          *)
(* current_dir unchanged; a successful cd sets current_dir to the resolved *)
(* absolute path of its argument.                                          *)
(***************************************************************************)
\* The step processes a cd line.
CdStep ==
    /\ LineStep
    /\ ~line'.unbalanced
    /\ line'.tokens[1] = CdCmd

CurrentDirFrame ==
    [][ /\ ~CdStep => cur' = cur
        /\ (CdStep /\ Len(line'.tokens) # 2) =>
             /\ cur' = cur
             /\ ~lastLog'.success
        /\ OneArgStep(CdCmd) =>
             IF IsDirAt(vfs, PathKeys(StepPath))
             THEN /\ lastLog'.success
                  /\ cur' = StepPath
             ELSE /\ ~lastLog'.success
                  /\ cur' = cur
                  /\ lastLog'.error.msg =
                       IF IsFileAt(vfs, PathKeys(StepPath))
                       THEN "not a directory" ELSE "directory not found"
      ]_vars

\* After cd a, a cd to the file b fails and current_dir is still /a.
CurrentDirFrameWitness ==
    /\ nlines = 2
    /\ cur = <<"/", "a">>
    /\ lastLog.command = CdCmd
    /\ lastLog.args = << <<"b">> >>
    /\ ~lastLog.success
    /\ lastLog.error = Error("not a directory", <<"/", "a", "/", "b">>)

(***************************************************************************)
(* C24.  A successful load keeps every declared node: when rows with       *)
(* pairwise distinct paths load without error, the path of every row is in *)
(* the resulting tree with the type the row declares (a directory for a    *)
(* dir row, a file with the decoded content for a file row): no node or    *)
(* subtree of a row is dropped or replaced by a later row.                 *)
(***************************************************************************)
RowIsKept(tree, r) ==
    IF Strip(r.type) = DirType
    THEN IsDirAt(tree, Segments(r.path))
    ELSE /\ IsFileAt(tree, Segments(r.path))
         /\ ContentAt(tree, Segments(r.path)) = b64decode(r.content_base64).bytes

LoadKeepsDeclaredNodes ==
    (resA.err = "none" /\ PairwiseDistinctPaths(rowsA)) =>
      \A i \in 1..Len(rowsA) : RowIsKept(resA.node, rowsA[i])

====
